---- MODULE Spec2Model ----
(***************************************************************************)
(* trytravis (src/trytravis.py): the command line entry point `main`, the  *)
(* configuration step `--repo` that saves the repository slug, and the     *)
(* transient branch / remote git workflow of TryTravis.start.              *)
(*                                                                         *)
(* Strings the program parses, formats, writes or reads are sequences of   *)
(* one-character strings; git, the file system, stdin and stdout are the   *)
(* environment.  A git command or file operation that fails raises and     *)
(* changes nothing.  Python 3 semantics are used where Python 2 and 3      *)
(* differ (text-mode reads).                                               *)
(***************************************************************************)
EXTENDS Integers, Sequences, FiniteSets, TLC

\* Largest millisecond timestamp time.time() returns in the model.
MaxClock == 1

\* Number of times the command is run in one behaviour.
MaxRuns == 2

(***************************************************************************)
(* String literals of the source, as character sequences.                  *)
(***************************************************************************)
S_https == <<"h","t","t","p","s",":","/","/">>
S_http == <<"h","t","t","p",":","/","/">>
S_www == <<"w","w","w",".">>
S_github == <<"g","i","t","h","u","b">>
S_gitlab == <<"g","i","t","l","a","b">>
S_dot == <<".">>
S_com == <<"c","o","m">>
S_slash == <<"/">>
S_octocat == <<"o","c","t","o","c","a","t">>
S_hello_world == <<"h","e","l","l","o","-","w","o","r","l","d">>

\* 'https://github.com/' of line 95.
RemoteUrlPrefix == S_https \o S_github \o S_dot \o S_com \o S_slash

(***************************************************************************)
(* Pure helpers: str.strip, str.lower, re.match, '%' formatting, text-mode *)
(* file reads.                                                             *)
(***************************************************************************)
Whitespace == {" ", "\t", "\n", "\r"}

HasPrefix(s, pre) == Len(s) >= Len(pre) /\ SubSeq(s, 1, Len(pre)) = pre

Drop(s, n) == SubSeq(s, n + 1, Len(s))

RECURSIVE LStrip(_)
LStrip(s) == IF s # <<>> /\ Head(s) \in Whitespace THEN LStrip(Tail(s)) ELSE s

RECURSIVE RStrip(_)
RStrip(s) ==
    IF s # <<>> /\ s[Len(s)] \in Whitespace THEN RStrip(SubSeq(s, 1, Len(s) - 1)) ELSE s

\* url.strip() of line 162.
Strip(s) == RStrip(LStrip(s))

LowerChar(c) ==
    CASE c = "Y" -> "y"
      [] c = "E" -> "e"
      [] c = "S" -> "s"
      [] c = "N" -> "n"
      [] c = "O" -> "o"
      [] OTHER -> c

\* accept.lower() of line 173.
Lower(s) == [i \in 1..Len(s) |-> LowerChar(s[i])]

NoSlash(s) == \A i \in 1..Len(s) : s[i] # "/"

\* ([^/]+)/([^/]+)$ on the rest of the URL: the positions of the separating
\* slash.  `$` also matches before a final newline, which [^/]+ consumes.
PathSplits(path) ==
    {i \in 2..(Len(path) - 1) :
        /\ path[i] = "/"
        /\ NoSlash(SubSeq(path, 1, i - 1))
        /\ NoSlash(SubSeq(path, i + 1, Len(path)))}

\* github.com/ of the pattern: the dot is unescaped and matches any
\* character but a newline.
HostMatches(r) ==
    /\ HasPrefix(r, S_github)
    /\ Len(r) >= Len(S_github) + 1
    /\ r[Len(S_github) + 1] # "\n"
    /\ HasPrefix(Drop(r, Len(S_github) + 1), S_com \o S_slash)

HostLen == Len(S_github) + 1 + Len(S_com) + 1

\* The candidates for what follows (?:www\.)? : with and without the group.
AfterWww(u) ==
    LET r == Drop(u, Len(S_https))
    IN  (IF HasPrefix(r, S_www) THEN {Drop(r, Len(S_www))} ELSE {}) \cup {r}

\* re.match(r'^https://(?:www\.)?github.com/([^/]+)/([^/]+)$', url), line 163:
\* the set of (author, name) group pairs of the successful matches (at most one).
UrlMatch(u) ==
    IF ~HasPrefix(u, S_https) THEN {}
    ELSE {<<SubSeq(Drop(r, HostLen), 1, i - 1),
            SubSeq(Drop(r, HostLen), i + 1, Len(Drop(r, HostLen)))>> :
              <<r, i>> \in {ri \in AfterWww(u) \X (1..Len(u)) :
                              /\ HostMatches(ri[1])
                              /\ ri[2] \in PathSplits(Drop(ri[1], HostLen))}}

\* '/%s/%s' % (author, name), line 180.
FormatSlug(author, name) == S_slash \o author \o S_slash \o name

\* 'https://github.com/' + self.slug, line 95.
RemoteUrl(slug_) == RemoteUrlPrefix \o slug_

\* f.read() of a file opened with mode 'r' (line 81-82): universal newlines,
\* '\r\n' and '\r' are read as '\n'.
RECURSIVE TextRead(_)
TextRead(s) ==
    IF s = <<>> THEN <<>>
    ELSE IF Head(s) = "\r"
         THEN IF Len(s) >= 2 /\ s[2] = "\n"
              THEN <<"\n">> \o TextRead(Drop(s, 2))
              ELSE <<"\n">> \o TextRead(Tail(s))
         ELSE <<Head(s)>> \o TextRead(Tail(s))

(***************************************************************************)
(* Inputs: command lines, what the user types at the two prompts, working  *)
(* tree changes.                                                           *)
(***************************************************************************)
U_a_b == S_https \o S_github \o S_dot \o S_com \o <<"/","a","/","b">>
U_octocat ==
    S_https \o S_github \o S_dot \o S_com \o S_slash \o S_octocat \o S_slash \o S_hello_world
U_www_octocat ==
    S_https \o S_www \o S_github \o S_dot \o S_com \o S_slash \o S_octocat \o S_slash
        \o S_hello_world
U_padded == <<" ">> \o U_a_b \o <<" ">>
U_anydot == S_https \o S_github \o <<"X">> \o S_com \o <<"/","a","/","b">>
U_cr == U_a_b \o <<"\r","c">>
U_gitlab == S_https \o S_gitlab \o S_dot \o S_com \o <<"/","x","/","y">>
U_http == S_http \o S_github \o S_dot \o S_com \o <<"/","a","/","b">>
U_no_repo == S_https \o S_github \o S_dot \o S_com \o <<"/","a">>
U_three == U_a_b \o <<"/","c">>
U_trailing_slash == U_a_b \o S_slash

UrlInputs ==
    {U_a_b, U_octocat, U_www_octocat, U_padded, U_anydot, U_cr,
     U_gitlab, U_http, U_no_repo, U_three, U_trailing_slash}

AcceptInputs ==
    {<<"y">>, <<"y","e","s">>, <<"Y">>, <<"Y","E","S">>, <<"Y","e","s">>,
     <<"n">>, <<"n","o">>, <<>>, <<" ","y">>, <<"y","e","s"," ">>}

HelpFlags == {"-h", "--help", "-H"}
VersionFlags == {"-v", "--version", "-V"}
RepoFlags == {"-r", "--repo", "-R"}
TokenFlags == {"--token", "-t", "-T"}

Argvs ==
    {<<>>, <<"--help">>, <<"--version">>, <<"--repo">>, <<"-r">>, <<"--bogus">>,
     <<"--token">>}
    \cup {<<f, u>> : f \in {"--repo", "--token"}, u \in {U_octocat, U_gitlab}}

Changes == {"tracked", "untracked"}

(***************************************************************************)
(* State.                                                                  *)
(***************************************************************************)
Procs == {"p1", "p2"}

VARIABLES
    slugFile,    \* <config_dir>/slug: [exists, content]
    configDir,   \* os.path.isdir(config_dir)
    branches,    \* local branch name -> commit it points to
    active,      \* repo.active_branch
    remotes,     \* remote name -> url
    wt,          \* unstaged working tree changes
    index,       \* staged changes
    clock,       \* time.time() * 1000
    runs,        \* how many times the command has been started
    pc,          \* position of each run of main
    argv,        \* its command line
    match,       \* match.groups() of line 169
    accept,      \* the answer read at line 170
    slug,        \* TryTravis.slug
    old_branch,  \* line 88
    new_branch,  \* line 90
    remote,      \* the local `remote` of line 95
    err,         \* the exception in flight
    out,         \* the lines the run has written
    status,      \* exit status of the finished run
    ops,         \* the git commands, prompts and file writes the run has issued
    before       \* the environment when the run started

envVars == <<slugFile, configDir, branches, active, remotes, wt, index, clock>>
procVars ==
    <<pc, argv, match, accept, slug, old_branch, new_branch, remote, err, out, status, ops, before>>
vars == <<envVars, runs, procVars>>

None == <<>>
NoErr == [cls |-> "none", msg |-> "none"]
Unbound == [name |-> "unbound", url |-> None]
NoMatch == <<None, None>>

Master == <<"master", 0>>
\* 'trytravis-' + str(int(time.time() * 1000)), line 90.
TransientName(t) == <<"trytravis-", t>>

RootCommit == [id |-> 0, parent |-> 0, changes |-> {}]

Exc(cls, msg) == [cls |-> cls, msg |-> msg]

\* `except RuntimeError` of line 187: NotImplementedError derives from
\* RuntimeError; git's errors, UnboundLocalError and SystemExit do not.
IsRuntimeError(e) == e.cls \in {"RuntimeError", "NotImplementedError"}

Line(stream, prefix, text) == [stream |-> stream, prefix |-> prefix, text |-> text]

Op(name, ok) == [op |-> name, ok |-> ok]

Snapshot ==
    [active |-> active, branches |-> branches, remotes |-> remotes, wt |-> wt,
     index |-> index, slugFile |-> slugFile, configDir |-> configDir]

Init ==
    /\ slugFile \in {[exists |-> FALSE, content |-> None],
                     [exists |-> TRUE, content |-> FormatSlug(S_octocat, S_hello_world)]}
    /\ configDir = slugFile.exists
    /\ branches = (Master :> RootCommit)
    /\ active = Master
    /\ remotes \in {[n \in {} |-> None], [n \in {"trytravis"} |-> U_gitlab]}
    /\ wt \in {{}, Changes}
    /\ index = {}
    /\ clock = 0
    /\ runs = 0
    /\ pc = [p \in Procs |-> "idle"]
    /\ argv = [p \in Procs |-> <<>>]
    /\ match = [p \in Procs |-> NoMatch]
    /\ accept = [p \in Procs |-> None]
    /\ slug = [p \in Procs |-> None]
    /\ old_branch = [p \in Procs |-> Master]
    /\ new_branch = [p \in Procs |-> Master]
    /\ remote = [p \in Procs |-> Unbound]
    /\ err = [p \in Procs |-> NoErr]
    /\ out = [p \in Procs |-> <<>>]
    /\ status = [p \in Procs |-> 0]
    /\ ops = [p \in Procs |-> <<>>]
    /\ before = [p \in Procs |-> Snapshot]

(***************************************************************************)
(* main: lines 114-191.                                                    *)
(***************************************************************************)
UsageLine == Line("stdout", "", "usage")
VersionLine == Line("stdout", "", "version")
SavedLine == Line("stdout", "", "Repository saved successfully.")

\* token_input_argv, line 121.
token_input_argv(a) == Len(a) = 2 /\ a[1] \in TokenFlags

\* The position a run takes from its command line, lines 124-186.  More than
\* one argument that is not a token command runs main(['--help']), whose
\* sys.exit(0) ends the process.
Dispatch(a) ==
    IF Len(a) > 1 /\ ~token_input_argv(a) THEN "help_exit"
    ELSE IF Len(a) = 1 \/ token_input_argv(a)
         THEN CASE a[1] \in HelpFlags -> "help"
                [] a[1] \in VersionFlags -> "version"
                [] a[1] \in RepoFlags -> "repo_url"
                [] OTHER -> "toplevel"
         ELSE "load"

Begin(p, a, next, lines, e) ==
    /\ pc' = [pc EXCEPT ![p] = next]
    /\ argv' = [argv EXCEPT ![p] = a]
    /\ out' = [out EXCEPT ![p] = lines]
    /\ err' = [err EXCEPT ![p] = e]
    /\ match' = [match EXCEPT ![p] = NoMatch]
    /\ accept' = [accept EXCEPT ![p] = None]
    /\ slug' = [slug EXCEPT ![p] = None]
    /\ remote' = [remote EXCEPT ![p] = Unbound]
    /\ ops' = [ops EXCEPT ![p] = <<>>]
    /\ before' = [before EXCEPT ![p] = Snapshot]
    /\ old_branch' = [old_branch EXCEPT ![p] = Master]
    /\ new_branch' = [new_branch EXCEPT ![p] = Master]
    /\ status' = [status EXCEPT ![p] = 0]
    /\ runs' = runs + 1
    /\ UNCHANGED envVars

\* A run of main(argv) starts: lines 114-157 and 183-186.
MainStart(p, a) ==
    /\ pc[p] \in {"idle", "exited"}
    /\ runs < MaxRuns
    /\ LET d == Dispatch(a)
       IN  CASE d = "help_exit" ->
                    Begin(p, a, "toplevel", <<UsageLine>>, Exc("SystemExit", "0"))
             [] d = "help" -> Begin(p, a, "toplevel", <<UsageLine>>, NoErr)
             [] d = "version" -> Begin(p, a, "toplevel", <<VersionLine>>, NoErr)
             [] OTHER -> Begin(p, a, d, <<>>, NoErr)

Goto(p, next) == pc' = [pc EXCEPT ![p] = next]

Raise(p, e) ==
    /\ err' = [err EXCEPT ![p] = e]
    /\ pc' = [pc EXCEPT ![p] = "toplevel"]

Log(p, name, ok) == ops' = [ops EXCEPT ![p] = Append(@, Op(name, ok))]

\* Lines 158-166: the URL from argv[1] or from the prompt, stripped and matched.
RepoUrl(p, typed) ==
    /\ pc[p] = "repo_url"
    /\ LET url == Strip(IF Len(argv[p]) = 2 THEN argv[p][2] ELSE typed)
           m == UrlMatch(url)
       IN  /\ IF Len(argv[p]) = 2 THEN UNCHANGED ops ELSE Log(p, "input_url", TRUE)
           /\ IF m = {}
              THEN /\ Raise(p, Exc("RuntimeError", "not a valid GitHub URL"))
                   /\ UNCHANGED match
              ELSE /\ match' = [match EXCEPT ![p] = CHOOSE g \in m : TRUE]
                   /\ Goto(p, "repo_accept")
                   /\ UNCHANGED err
    /\ UNCHANGED <<runs, envVars, argv, accept, slug, old_branch, new_branch, remote, out, status, before>>

\* Faulty variant of Declined: any answer that begins with y is taken as
\* consent.
DeclinedUnlessStartsWithY(answer) == answer = <<>> \/ Lower(answer)[1] # "y"

\* accept.lower() not in ['y', 'yes'], line 173.
Declined(answer) == Lower(answer) \notin {<<"y">>, <<"y","e","s">>}

\* open(..., 'w+'), f.truncate(), f.write(data): lines 178-180.
WriteSlug(file, data) == [exists |-> TRUE, content |-> data]

\* Lines 169-181: the confirmation prompt, then the slug file is written.
RepoAccept(p, answer) ==
    /\ pc[p] = "repo_accept"
    /\ accept' = [accept EXCEPT ![p] = answer]
    /\ IF Declined(answer)
       THEN /\ Raise(p, Exc("RuntimeError", "Operation aborted by user."))
            /\ Log(p, "input_accept", FALSE)
            /\ UNCHANGED <<slugFile, configDir, out>>
       ELSE /\ configDir' = TRUE
            /\ slugFile' = WriteSlug(slugFile, FormatSlug(match[p][1], match[p][2]))
            /\ ops' = [ops EXCEPT ![p] = @ \o <<Op("input_accept", TRUE), Op("write_slug", TRUE)>>]
            /\ out' = [out EXCEPT ![p] = Append(@, SavedLine)]
            /\ Goto(p, "toplevel")
            /\ UNCHANGED err
    /\ UNCHANGED <<branches, active, remotes, wt, index, clock>>
    /\ UNCHANGED <<runs, argv, match, slug, old_branch, new_branch, remote, status, before>>

\* Lines 187-191: RuntimeError is reported and exits 1, no exception exits 0;
\* SystemExit(0) of the nested main ends the process with 0; any other
\* exception is uncaught: the interpreter writes a traceback to stderr and
\* exits 1.
ExitStatus(e) == IF e = NoErr \/ e = Exc("SystemExit", "0") THEN 0 ELSE 1

Report(e) ==
    CASE IsRuntimeError(e) -> <<Line("stdout", "ERROR: ", e.msg)>>
      [] e = NoErr \/ e.cls = "SystemExit" -> <<>>
      [] OTHER -> <<Line("stderr", "Traceback", e.cls)>>

TopLevel(p) ==
    /\ pc[p] = "toplevel"
    /\ out' = [out EXCEPT ![p] = @ \o Report(err[p])]
    /\ status' = [status EXCEPT ![p] = ExitStatus(err[p])]
    /\ Goto(p, "exited")
    /\ UNCHANGED <<runs, envVars, argv, accept, match, slug, old_branch, new_branch, remote, err, ops, before>>

(***************************************************************************)
(* TryTravis.start: lines 73-111.                                          *)
(***************************************************************************)
\* The RuntimeError of line 84.
ConfigurationError == Exc("RuntimeError", "Could not find your repository.")

\* Faulty variant of LoadFails: a missing file is not treated as a failure.
LoadFailsOnlyOnIoError(file, ioerr) == file.exists /\ ioerr

\* The `except (OSError, IOError)` of line 83 is taken.
LoadFails(file, ioerr) == ~file.exists \/ ioerr

\* _load_trytravis_github_slug, lines 79-84.
LoadSlug(p, ioerr) ==
    /\ pc[p] = "load"
    /\ IF LoadFails(slugFile, ioerr)
       THEN /\ Raise(p, ConfigurationError)
            /\ UNCHANGED slug
       ELSE /\ slug' = [slug EXCEPT ![p] = TextRead(slugFile.content)]
            /\ Goto(p, "open_repo")
            /\ UNCHANGED err
    /\ Log(p, "read_slug", ~LoadFails(slugFile, ioerr))
    /\ UNCHANGED <<runs, envVars, argv, accept, match, old_branch, new_branch, remote, out, status, before>>

\* Lines 87-88: git.Repo(self.path) and repo.active_branch.name; outside the
\* try statement, so a failure leaves _submit_project_to_github at once.
OpenRepo(p, ok) ==
    /\ pc[p] = "open_repo"
    /\ IF ok
       THEN /\ old_branch' = [old_branch EXCEPT ![p] = active]
            /\ Goto(p, "checkout_b")
            /\ UNCHANGED err
       ELSE /\ Raise(p, Exc("InvalidGitRepositoryError", "active_branch"))
            /\ UNCHANGED old_branch
    /\ Log(p, "active_branch", ok)
    /\ UNCHANGED <<runs, envVars, argv, accept, match, slug, new_branch, remote, out, status, before>>

\* Faulty variant of OnError: no finally clause, an exception leaves the
\* function at once.
OnErrorNoFinally == "toplevel"

\* Faulty variant of OnError: the remote is removed inside the try block,
\* after the push, so an exception skips the removal.
OnErrorSkipRemoval == "checkout_old"

\* Where control goes when a statement of the try block (lines 90-98)
\* raises: the finally clause, line 100.
OnError == "delete_remote"

\* Faulty variant of OnSuccess: the cleanup runs only when a statement
\* raised (an except clause instead of finally).
OnSuccessNoCleanup == "wait_build"

\* Where control goes when the try block completes: the finally clause.
OnSuccess == "delete_remote"

\* A statement of the try block raises e.
Fail(p, e) ==
    /\ err' = [err EXCEPT ![p] = e]
    /\ Goto(p, OnError)

\* Faulty variant of BranchAfterCheckoutB: the branch is created but not
\* checked out.
BranchAfterCheckoutBStays(cur, new) == cur

\* The active branch after `git checkout -b new HEAD` on branch cur.
BranchAfterCheckoutB(cur, new) == new

\* repo.git.checkout('HEAD', b=new_branch), lines 90-91.
CheckoutB(p, ok, t) ==
    /\ pc[p] = "checkout_b"
    /\ t \in clock..MaxClock
    /\ clock' = t
    /\ new_branch' = [new_branch EXCEPT ![p] = TransientName(t)]
    /\ LET done == ok /\ TransientName(t) \notin DOMAIN branches
       IN  /\ IF done
              THEN /\ branches' = branches @@ (TransientName(t) :> branches[active])
                   /\ active' = BranchAfterCheckoutB(active, TransientName(t))
                   /\ Goto(p, "add")
                   /\ UNCHANGED err
              ELSE /\ Fail(p, Exc("GitCommandError", "checkout_b"))
                   /\ UNCHANGED <<branches, active>>
           /\ Log(p, "checkout_b", done)
    /\ UNCHANGED <<slugFile, configDir, remotes, wt, index>>
    /\ UNCHANGED <<runs, argv, accept, match, slug, old_branch, remote, out, status, before>>

\* Faulty variant of StagedByAdd: `git add -u`, untracked files are left out.
StagedTrackedOnly(w) == w \cap {"tracked"}

\* What `git add --all` stages of the working tree changes w: all of them,
\* tracked and untracked.
StagedByAdd(w) == w

\* repo.git.add('--all'), line 92.
Add(p, ok) ==
    /\ pc[p] = "add"
    /\ IF ok
       THEN /\ index' = index \cup StagedByAdd(wt)
            /\ wt' = wt \ StagedByAdd(wt)
            /\ Goto(p, "commit")
            /\ UNCHANGED err
       ELSE /\ Fail(p, Exc("GitCommandError", "add"))
            /\ UNCHANGED <<wt, index>>
    /\ Log(p, "add", ok)
    /\ UNCHANGED <<slugFile, configDir, branches, active, remotes, clock>>
    /\ UNCHANGED <<runs, argv, accept, match, slug, old_branch, new_branch, remote, out, status, before>>

\* The commit git creates on the active branch from the index.
NewCommit(parent, staged, t) == [id |-> t + 1, parent |-> parent.id, changes |-> staged]

\* repo.git.commit(m='trytravis'), line 93: git refuses an empty commit.
Commit(p, ok) ==
    /\ pc[p] = "commit"
    /\ LET done == ok /\ index # {}
       IN  /\ IF done
              THEN /\ branches' =
                        [branches EXCEPT ![active] = NewCommit(branches[active], index, active[2])]
                   /\ index' = {}
                   /\ Goto(p, "create_remote")
                   /\ UNCHANGED err
              ELSE /\ Fail(p, Exc("GitCommandError", "commit"))
                   /\ UNCHANGED <<branches, index>>
           /\ Log(p, "commit", done)
    /\ UNCHANGED <<slugFile, configDir, active, remotes, wt, clock>>
    /\ UNCHANGED <<runs, argv, accept, match, slug, old_branch, new_branch, remote, out, status, before>>

\* git refuses to add a remote whose name is taken.
RemoteCreated(ok, rs) == ok /\ "trytravis" \notin DOMAIN rs

\* Lines 94-97: create_remote; whatever it raises is swallowed, and `remote`
\* is assigned only when it returns.
CreateRemote(p, ok) ==
    /\ pc[p] = "create_remote"
    /\ IF RemoteCreated(ok, remotes)
       THEN /\ remotes' = remotes @@ ("trytravis" :> RemoteUrl(slug[p]))
            /\ remote' = [remote EXCEPT ![p] = [name |-> "trytravis", url |-> RemoteUrl(slug[p])]]
       ELSE UNCHANGED <<remotes, remote>>
    /\ Log(p, "create_remote", RemoteCreated(ok, remotes))
    /\ Goto(p, "push")
    /\ UNCHANGED <<slugFile, configDir, branches, active, wt, index, clock>>
    /\ UNCHANGED <<runs, argv, accept, match, slug, old_branch, new_branch, err, out, status, before>>

\* remote.push(), line 98: reading the unassigned local `remote` raises
\* UnboundLocalError before any git command is issued; git push fails when
\* the repository has no remote of that name (any more).
Push(p, ok) ==
    /\ pc[p] = "push"
    /\ IF remote[p] = Unbound
       THEN /\ Fail(p, Exc("UnboundLocalError", "remote"))
            /\ UNCHANGED ops
       ELSE IF remote[p].name \in DOMAIN remotes
            THEN /\ Log(p, "push", ok)
                 /\ IF ok
                    THEN /\ Goto(p, OnSuccess)
                         /\ UNCHANGED err
                    ELSE Fail(p, Exc("GitCommandError", "push"))
            ELSE /\ Log(p, "push_no_remote", FALSE)
                 /\ Fail(p, Exc("GitCommandError", "push"))
    /\ UNCHANGED <<runs, envVars, argv, accept, match, slug, old_branch, new_branch, remote, out, status, before>>

\* Lines 100-103: repo.delete_remote('trytravis'), its failure swallowed.
DeleteRemote(p, ok) ==
    /\ pc[p] = "delete_remote"
    /\ LET done == ok /\ "trytravis" \in DOMAIN remotes
       IN  /\ remotes' = IF done
                         THEN [n \in DOMAIN remotes \ {"trytravis"} |-> remotes[n]]
                         ELSE remotes
           /\ Log(p, "delete_remote", done)
    /\ Goto(p, "checkout_old")
    /\ UNCHANGED <<slugFile, configDir, branches, active, wt, index, clock>>
    /\ UNCHANGED <<runs, argv, accept, match, slug, old_branch, new_branch, remote, err, out, status, before>>

\* The exception that leaves the finally clause when its last statement
\* raises e while `pending` is in flight: the new one.
Leaves(pending, e) == e

\* Faulty variant of BranchesKept: the cleanup also deletes the transient
\* branch.
BranchesWithoutTransient(bs, new) == [b \in DOMAIN bs \ {new} |-> bs[b]]

\* The local branches after the cleanup of lines 100-104, which removes the
\* remote and checks out: no branch is deleted.
BranchesKept(bs, new) == bs

\* Faulty variant of CheckoutTarget: the cleanup checks out the transient
\* branch.
CheckoutTargetNew(old, new) == new

\* The branch line 104 checks out.
CheckoutTarget(old, new) == old

\* repo.git.checkout(old_branch), line 104, the last statement of the
\* finally clause: then the exception in flight, if any, is re-raised.
CheckoutOld(p, ok) ==
    /\ pc[p] = "checkout_old"
    /\ IF ok
       THEN /\ active' = CheckoutTarget(old_branch[p], new_branch[p])
            /\ Goto(p, IF err[p] = NoErr THEN "wait_build" ELSE "toplevel")
            /\ UNCHANGED err
       ELSE /\ Raise(p, Leaves(err[p], Exc("GitCommandError", "checkout_old")))
            /\ UNCHANGED active
    /\ branches' = BranchesKept(branches, new_branch[p])
    /\ Log(p, "checkout_old", ok)
    /\ UNCHANGED <<slugFile, configDir, remotes, wt, index, clock>>
    /\ UNCHANGED <<runs, argv, accept, match, slug, old_branch, new_branch, remote, out, status, before>>

\* _wait_for_travis_build, lines 106-107.
WaitForBuild(p) ==
    /\ pc[p] = "wait_build"
    /\ Raise(p, Exc("NotImplementedError", ""))
    /\ UNCHANGED <<runs, envVars, argv, accept, match, slug, old_branch, new_branch, remote, out, status, ops, before>>

\* The developer changes the working tree (line 92 stages whatever has
\* changed) once no run of the command is in progress.
UserEdit ==
    /\ \A p \in Procs : pc[p] \in {"idle", "exited"}
    /\ runs < MaxRuns
    /\ wt # Changes
    /\ wt' = Changes
    /\ pc' = [p \in Procs |-> "idle"]
    /\ UNCHANGED <<slugFile, configDir, branches, active, remotes, index, clock, runs>>
    /\ UNCHANGED <<argv, accept, match, slug, old_branch, new_branch, remote, err, out, status, ops, before>>

Step(p) ==
    \/ \E a \in Argvs : MainStart(p, a)
    \/ \E u \in UrlInputs : RepoUrl(p, u)
    \/ \E a \in AcceptInputs : RepoAccept(p, a)
    \/ \E io \in BOOLEAN : LoadSlug(p, io)
    \/ \E ok \in BOOLEAN : OpenRepo(p, ok)
    \/ \E ok \in BOOLEAN, t \in 0..MaxClock : CheckoutB(p, ok, t)
    \/ \E ok \in BOOLEAN : Add(p, ok)
    \/ \E ok \in BOOLEAN : Commit(p, ok)
    \/ \E ok \in BOOLEAN : CreateRemote(p, ok)
    \/ \E ok \in BOOLEAN : Push(p, ok)
    \/ \E ok \in BOOLEAN : DeleteRemote(p, ok)
    \/ \E ok \in BOOLEAN : CheckoutOld(p, ok)
    \/ WaitForBuild(p)
    \/ TopLevel(p)

\* One run of main at a time (spec section 5: single-threaded, one submission).
Next ==
    \/ Step("p1")
    \/ UserEdit

Spec == Init /\ [][Next]_vars

\* Process p runs the command with no arguments, once: lines 183-186.
SubmitStart(p) ==
    /\ pc[p] = "idle"
    /\ MainStart(p, <<>>)

\* A step of the submission of process p.
SubmitStep(p) ==
    \/ SubmitStart(p)
    \/ \E io \in BOOLEAN : LoadSlug(p, io)
    \/ \E ok \in BOOLEAN : OpenRepo(p, ok)
    \/ \E ok \in BOOLEAN, t \in 0..MaxClock : CheckoutB(p, ok, t)
    \/ \E ok \in BOOLEAN : Add(p, ok)
    \/ \E ok \in BOOLEAN : Commit(p, ok)
    \/ \E ok \in BOOLEAN : CreateRemote(p, ok)
    \/ \E ok \in BOOLEAN : Push(p, ok)
    \/ \E ok \in BOOLEAN : DeleteRemote(p, ok)
    \/ \E ok \in BOOLEAN : CheckoutOld(p, ok)
    \/ WaitForBuild(p)
    \/ TopLevel(p)

\* Two processes run the command in the same repository at once, each of
\* them one submission: their steps interleave, each git command being one
\* step.
NextConc == \E p \in Procs : SubmitStep(p)

SpecConc == Init /\ [][NextConc]_vars

(***************************************************************************)
(* Vocabulary of the properties.                                           *)
(***************************************************************************)
Range(f) == {f[i] : i \in DOMAIN f}

\* The run issued the operation, and it succeeded / failed / either.
Did(p, name) == Op(name, TRUE) \in Range(ops[p])
Failed(p, name) == Op(name, FALSE) \in Range(ops[p])
Attempted(p, name) == Did(p, name) \/ Failed(p, name)

\* The run of main has ended.
Done(p) == pc[p] = "exited"

\* The run was a submission (no arguments).
Submission(p) == pc[p] # "idle" /\ argv[p] = <<>>

HasTransientRemote == "trytravis" \in DOMAIN remotes

C3_Original ==
    \A p \in Procs :
        /\ "trytravis" \in DOMAIN before[p].remotes
        /\ Failed(p, "create_remote")
        /\ Attempted(p, "delete_remote")
        => Attempted(p, "push") /\ err[p].cls # "UnboundLocalError"

(***************************************************************************)
(* C4.  The temporary remote submit creates points at                      *)
(* https://github.com<slug>, with one slash between host and owner.        *)
(***************************************************************************)
C4_Original ==
    \A p \in Procs :
        Did(p, "create_remote") /\ HasTransientRemote
            => remotes["trytravis"] = S_https \o S_github \o S_dot \o S_com \o slug[p]

(***************************************************************************)
(* C5.  Cleanup never masks the primary error: when a step of submit fails *)
(* with error E and the remote removal or the final checkout fails too,    *)
(* the caller receives E.                                                  *)
(***************************************************************************)
TrySteps == {"checkout_b", "add", "commit", "push"}

C5_Original ==
    \A p \in Procs :
        \A step \in TrySteps :
            Done(p) /\ Failed(p, step) => err[p] = Exc("GitCommandError", step)

(***************************************************************************)
(* C6.  When the slug file is absent or unreadable, a submission raises    *)
(* the configuration error at once: no git command is issued, and the      *)
(* branches, the active branch, the remotes and the working tree are as    *)
(* they were before the call.                                              *)
(***************************************************************************)
C6_MissingConfigFailsFirst ==
    \A p \in Procs :
        /\ Submission(p)
        /\ Attempted(p, "read_slug")
        /\ ~before[p].slugFile.exists \/ Failed(p, "read_slug")
        => /\ err[p] = ConfigurationError
           /\ pc[p] \in {"toplevel", "exited"}
           /\ ops[p] = <<Op("read_slug", FALSE)>>
           /\ Snapshot = before[p]
           /\ Done(p) => status[p] = 1

\* C6's case: a submission with no slug file, in a repository that has a
\* trytravis remote and uncommitted changes, has ended.
C6_Witness ==
    /\ Done("p1")
    /\ Submission("p1")
    /\ ~before["p1"].slugFile.exists
    /\ err["p1"] = ConfigurationError
    /\ HasTransientRemote
    /\ wt = Changes

(***************************************************************************)
(* C7.  `--repo <url>` with the URL as second argument validates the URL   *)
(* and prompts for confirmation (and on `y` writes the slug).              *)
(***************************************************************************)
C7_Original ==
    \A p \in Procs :
        /\ Done(p)
        /\ Len(argv[p]) = 2
        /\ argv[p][1] \in RepoFlags
        /\ UrlMatch(Strip(argv[p][2])) # {}
        => Attempted(p, "input_accept")

(***************************************************************************)
(* C8.  A URL that does not match the GitHub pattern, given as the --repo  *)
(* argument or typed at the prompt, is rejected with a validation error:   *)
(* an ERROR line, exit status 1, configuration file unchanged.             *)
(***************************************************************************)
GivenBadUrl(p) ==
    \/ /\ Len(argv[p]) = 2
       /\ argv[p][1] \in RepoFlags
       /\ UrlMatch(Strip(argv[p][2])) = {}
    \/ /\ Attempted(p, "input_url")
       /\ match[p] = NoMatch

ErrorLines(p) == {i \in DOMAIN out[p] : out[p][i].prefix = "ERROR: "}

C8_Original ==
    \A p \in Procs :
        Done(p) /\ GivenBadUrl(p) =>
            /\ status[p] = 1
            /\ Cardinality(ErrorLines(p)) = 1
            /\ slugFile = before[p].slugFile

(***************************************************************************)
(* C9.  Round trip: the slug a submission loads is exactly the slug the    *)
(* configuration step wrote to the file, the file's whole content.         *)
(***************************************************************************)
C9_Original ==
    \A p \in Procs :
        /\ Did(p, "write_slug") => slugFile.content = FormatSlug(match[p][1], match[p][2])
        /\ Did(p, "read_slug") => slug[p] = slugFile.content

(***************************************************************************)
(* C10.  Every error raised during a run of main reaches the top-level     *)
(* handler, which prints exactly one line with the `ERROR: ` prefix and    *)
(* exits with status 1; status 0 only when no error occurred.              *)
(***************************************************************************)
IsError(e) == e # NoErr /\ e.cls # "SystemExit"

C10_Original ==
    \A p \in Procs :
        Done(p) =>
            /\ IsError(err[p]) => Cardinality(ErrorLines(p)) = 1 /\ status[p] = 1
            /\ status[p] = 0 => ~IsError(err[p])

(***************************************************************************)
(* C11.  Original statement: a submission never completes successfully;    *)
(* whenever the push step succeeds, start() raises the unimplemented error *)
(* from the build-wait step, and only after the temporary remote has been  *)
(* removed and the original branch checked out; the build-watch step is    *)
(* never reached.                                                          *)
(***************************************************************************)
Unimplemented == Exc("NotImplementedError", "")

\* start() has ended, by an exception that reached main.
Raised(p) == pc[p] \in {"toplevel", "exited"}

\* The operations the run has issued end with o1, o2 in that order.
EndsWith(p, o1, o2) ==
    /\ Len(ops[p]) >= 2
    /\ ops[p][Len(ops[p]) - 1] = o1
    /\ ops[p][Len(ops[p])] = o2

C12_OriginalBranchUntouched ==
    \A p \in Procs :
        Submission(p) /\ Did(p, "active_branch") =>
            /\ old_branch[p] = before[p].active
            /\ branches[old_branch[p]] = before[p].branches[old_branch[p]]
            /\ Did(p, "commit") =>
                 /\ new_branch[p] # old_branch[p]
                 /\ branches[new_branch[p]].parent = branches[old_branch[p]].id
                 /\ \A b \in DOMAIN branches \ {new_branch[p]} :
                        branches[b] # branches[new_branch[p]]

\* C12's case: uncommitted changes were committed and the call has ended
\* back on the original branch, which still points to its commit.
C12_Witness ==
    /\ Done("p1")
    /\ Did("p1", "commit")
    /\ Did("p1", "checkout_old")
    /\ active = Master
    /\ branches[Master] = RootCommit
    /\ branches[new_branch["p1"]].changes = Changes

(***************************************************************************)
(* C13.  submit follows the state machine Idle -> BranchCreated ->         *)
(* Committed -> RemoteAdded -> Pushed -> Cleaned: the steps run only in    *)
(* that order, a failure in any step after the original branch is recorded *)
(* skips all remaining forward steps, and every such execution ends with   *)
(* remote removal followed by checkout of the original branch, each        *)
(* attempted exactly once and in that order, with no git operation after.  *)
(***************************************************************************)
StepOrder ==
    <<"read_slug", "active_branch", "checkout_b", "add", "commit",
      "create_remote", "push", "delete_remote", "checkout_old">>

ForwardSteps == {"checkout_b", "add", "commit", "create_remote", "push"}

Pos(name) == CHOOSE i \in DOMAIN StepOrder : StepOrder[i] = name

Count(p, name) == Cardinality({i \in DOMAIN ops[p] : ops[p][i].op = name})

C13_StateMachine ==
    \A p \in Procs :
        Submission(p) =>
            /\ \A i \in DOMAIN ops[p] : ops[p][i].op \in Range(StepOrder)
            /\ \A i, j \in DOMAIN ops[p] :
                   i < j => Pos(ops[p][i].op) < Pos(ops[p][j].op)
            /\ \A i \in DOMAIN ops[p] :
                   i < Len(ops[p]) /\ ops[p][i].op \in ForwardSteps =>
                       IF ops[p][i].ok
                       THEN Pos(ops[p][i + 1].op) = Pos(ops[p][i].op) + 1
                       ELSE ops[p][i + 1].op = "delete_remote"
            /\ Len(ops[p]) > 0 /\ ops[p][Len(ops[p])].op \in ForwardSteps
               /\ ~ops[p][Len(ops[p])].ok
                   => pc[p] = "delete_remote" \/ ops[p][Len(ops[p])].op = "create_remote"
            /\ Raised(p) /\ Did(p, "active_branch") =>
                   /\ Count(p, "delete_remote") = 1
                   /\ Count(p, "checkout_old") = 1
                   /\ ops[p][Len(ops[p]) - 1].op = "delete_remote"
                   /\ ops[p][Len(ops[p])].op = "checkout_old"

\* C13's case: the commit failed; stage and the rest of the forward steps
\* were skipped and the run ended with remote removal, then checkout.
C13_Witness ==
    /\ Done("p1")
    /\ Failed("p1", "commit")
    /\ ~Attempted("p1", "create_remote")
    /\ ~Attempted("p1", "push")
    /\ Len(ops["p1"]) = 7
    /\ ops["p1"][6].op = "delete_remote"
    /\ ops["p1"][7] = Op("checkout_old", TRUE)

(***************************************************************************)
(* C14.  Any failure of a version-control operation in branch creation,    *)
(* stage/commit or push is propagated to the caller of submit as that same *)
(* failure, after cleanup has run; in particular when the push fails the   *)
(* caller gets the push error, the trytravis remote is absent and the      *)
(* original branch is active.                                              *)
(***************************************************************************)
C14_Original ==
    \A p \in Procs :
        /\ \A step \in TrySteps :
               Raised(p) /\ Failed(p, step) =>
                   /\ err[p] = Exc("GitCommandError", step)
                   /\ Attempted(p, "delete_remote")
                   /\ Attempted(p, "checkout_old")
        /\ Raised(p) /\ Failed(p, "push") =>
               /\ ~HasTransientRemote
               /\ active = before[p].active

(***************************************************************************)
(* C15.  The transient branch is never deleted: after every submit in      *)
(* which branch creation succeeded, the branch trytravis-<timestamp> still *)
(* exists locally, so across any sequence of submits the set of local      *)
(* branches only grows, by one branch per such submit.                     *)
(***************************************************************************)
\* The step is a successful branch creation of run p.
CreatesBranch(p) == ~Did(p, "checkout_b") /\ Did(p, "checkout_b")'

BranchesGrowByCreation ==
    /\ DOMAIN branches \subseteq DOMAIN branches'
    /\ \A p \in Procs :
           CreatesBranch(p) =>
               /\ new_branch'[p] \notin DOMAIN branches
               /\ DOMAIN branches' = DOMAIN branches \cup {new_branch'[p]}
    /\ (\A p \in Procs : ~CreatesBranch(p)) => DOMAIN branches' = DOMAIN branches

TransientBranchKept ==
    \A p \in Procs :
        Submission(p) =>
            IF Did(p, "checkout_b")
            THEN /\ new_branch[p] \in DOMAIN branches
                 /\ new_branch[p] \notin DOMAIN before[p].branches
                 /\ DOMAIN branches = DOMAIN before[p].branches \cup {new_branch[p]}
            ELSE DOMAIN branches = DOMAIN before[p].branches

C15_BranchesOnlyGrow == []TransientBranchKept /\ [][BranchesGrowByCreation]_vars

\* C15's case: the second of two submits has ended, each created its
\* transient branch, and both branches exist beside the original one.
C15_Witness ==
    /\ Done("p1")
    /\ Did("p1", "checkout_b")
    /\ Did("p1", "checkout_old")
    /\ Cardinality(DOMAIN before["p1"].branches) = 2
    /\ Cardinality(DOMAIN branches) = 3
    /\ active = Master

(***************************************************************************)
(* C16.  When the user answers the confirmation prompt of the              *)
(* configuration step with anything other than y or yes (in any letter     *)
(* case), the step fails with a validation error and mutates no state: the *)
(* configuration directory is not created and the slug file keeps its      *)
(* previous content.                                                       *)
(***************************************************************************)
YesAnswers ==
    {<<"y">>, <<"Y">>}
        \cup {<<c1, c2, c3>> : c1 \in {"y", "Y"}, c2 \in {"e", "E"}, c3 \in {"s", "S"}}

C16_DeclineMutatesNothing ==
    \A p \in Procs :
        pc[p] # "idle" /\ Attempted(p, "input_accept") /\ accept[p] \notin YesAnswers =>
            /\ Raised(p)
            /\ err[p] = Exc("RuntimeError", "Operation aborted by user.")
            /\ ~Attempted(p, "write_slug")
            /\ configDir = before[p].configDir
            /\ slugFile = before[p].slugFile
            /\ Snapshot = before[p]
            /\ Done(p) => status[p] = 1 /\ Cardinality(ErrorLines(p)) = 1

\* C16's case: with no configuration directory yet, a valid URL was given
\* and the prompt answered "yes " (trailing blank); the run has ended.
C16_Witness ==
    /\ Done("p1")
    /\ match["p1"] # NoMatch
    /\ accept["p1"] = <<"y", "e", "s", " ">>
    /\ Failed("p1", "input_accept")
    /\ ~before["p1"].configDir
    /\ ~configDir
    /\ ~slugFile.exists
    /\ status["p1"] = 1

(***************************************************************************)
(* C18.  After a submit in which the commit succeeded and the final        *)
(* checkout succeeded, the working tree equals the head of the original    *)
(* branch: the changes that were uncommitted before the call are no longer *)
(* in the working tree and exist only in the transient branch's commit.    *)
(***************************************************************************)
C18_ChangesMovedToTransient ==
    \A p \in Procs :
        Raised(p) /\ Submission(p) /\ Did(p, "commit") /\ Did(p, "checkout_old") =>
            /\ active = old_branch[p]
            /\ wt = {}
            /\ index = {}
            /\ before[p].wt \cup before[p].index # {}
            /\ branches[new_branch[p]].changes = before[p].wt \cup before[p].index
            /\ \A b \in DOMAIN before[p].branches : branches[b] = before[p].branches[b]

\* C18's case: the call started with tracked and untracked changes in the
\* working tree, committed them, and ended on the original branch.
C18_Witness ==
    /\ Done("p1")
    /\ before["p1"].wt = Changes
    /\ Did("p1", "commit")
    /\ Did("p1", "checkout_old")
    /\ wt = {}
    /\ active = Master
    /\ branches[new_branch["p1"]].changes = Changes
    /\ branches[Master].changes = {}

(***************************************************************************)
(* C19.  If a remote named trytravis already exists when submit reaches    *)
(* the git workflow, submit never pushes anything, raises an error that is *)
(* not a version-control error (use of the unassigned `remote` variable),  *)
(* and has removed the pre-existing remote by the time it raises; the      *)
(* removal also happens when an earlier step (branch creation or commit)   *)
(* is the one that failed.                                                 *)
(***************************************************************************)
C19_Original ==
    \A p \in Procs :
        /\ Submission(p)
        /\ Did(p, "active_branch")
        /\ "trytravis" \in DOMAIN before[p].remotes
        => /\ ~Attempted(p, "push")
           /\ Raised(p) =>
                /\ ~HasTransientRemote
                /\ Attempted(p, "create_remote") => err[p] = Exc("UnboundLocalError", "remote")

(***************************************************************************)
(* C17.  Two submit calls interleaved against the same repository race on  *)
(* the remote name and on the active-branch pointer: an interleaving is    *)
(* reachable in which one call's cleanup removes the trytravis remote      *)
(* before the other call pushes, and one in which, after both calls have   *)
(* finished, the active branch is a transient branch rather than the       *)
(* branch active before either call started.  The races are reached in     *)
(* C17_Witness; the invariant states what they consist of: a push finds    *)
(* the remote it created missing only when the other call's cleanup has    *)
(* removed it, the active branch is at every moment an existing branch,    *)
(* and the branch left active by two finished calls whose                  *)
(* final checkouts succeeded is the branch one of them recorded as         *)
(* original, which is a transient branch only when it is the other call's. *)
(***************************************************************************)
Other(p) == CHOOSE q \in Procs : q # p

BothFinished ==
    /\ \A p \in Procs : Done(p) /\ Submission(p)
    /\ \A p \in Procs : Did(p, "active_branch") => Did(p, "checkout_old")
    /\ \E p \in Procs : Did(p, "active_branch")

C17_RaceOnRemoteAndBranch ==
    /\ active \in DOMAIN branches
    /\ \A p \in Procs :
           Failed(p, "push_no_remote") =>
               /\ Did(p, "create_remote")
               /\ ~Attempted(p, "push")
               /\ Did(Other(p), "delete_remote")
    /\ BothFinished =>
           /\ active \in {old_branch[p] : p \in {q \in Procs : Did(q, "active_branch")}}
           /\ active # Master =>
                  \E p \in Procs :
                      /\ old_branch[p] = active
                      /\ new_branch[Other(p)] = active
                      /\ Did(Other(p), "checkout_b")

\* C17's case: both calls started on master and have finished with
\* successful final checkouts; p2's cleanup removed the remote p1 had
\* created before p1 pushed, and a transient branch is left active.
C17_Witness ==
    /\ BothFinished
    /\ \A p \in Procs : before[p].active = Master /\ Did(p, "checkout_old")
    /\ Did("p1", "create_remote")
    /\ Did("p2", "delete_remote")
    /\ Failed("p1", "push_no_remote")
    /\ active # Master
    /\ active \in {new_branch[p] : p \in Procs}

====
